---- MODULE Spec2Model ----
(***************************************************************************)
(* Model of contracts/DataHiveMarket.sol: the listing / settlement ledger. *)
(*                                                                         *)
(* Every external function of the contract is one action, except buyItem,  *)
(* whose three outbound value transfers hand control to the recipient.     *)
(* buyItem is therefore a frame on a call stack: the frame is pushed when  *)
(* the checks pass, and the recipient that currently holds control either  *)
(* returns (the frame moves to its next transfer or completes), reverts    *)
(* (the frame fails and the EVM restores the storage the frame started     *)
(* from), or calls back into the contract (any action, taken while the     *)
(* stack is not empty).                                                    *)
(***************************************************************************)
EXTENDS Integers, Sequences, FiniteSets, TLC

VARIABLES
    listings,      \* mapping(uint256 => Listing)
    listingCount,  \* uint256 listingCount
    platformFee,   \* uint256 platformFee (basis points)
    feeRecipient,  \* address payable feeRecipient
    owner,         \* Ownable._owner
    status,        \* ReentrancyGuard._status
    balance,       \* native-currency balance of every address
    history,       \* the event log, kept as what was emitted per listing
    now,           \* block.timestamp
    stack,         \* buyItem calls in progress, innermost last
    last           \* outcome of the call that completed most recently

vars == <<listings, listingCount, platformFee, feeRecipient, owner, status,
          balance, history, now, stack, last>>

----------------------------------------------------------------------------
(* Bounds of the model *)

MaxListings == 2
MaxTime == 2
MaxDepth == 2
InitialBalance == 700
UintMax == 1000000

----------------------------------------------------------------------------
(* Addresses and inputs *)

Deployer == "deployer"
Alice == "alice"
Bob == "bob"
ZeroAddress == "0x0"
Market == "market"

Actors == {Deployer, Alice, Bob}
Holders == Actors \cup {Market}
Sellers == {Alice}                     \* the callers of listItem
Recipients == {Alice, ZeroAddress}     \* the arguments of updateFeeRecipient

Ids == 0 .. (MaxListings + 1)
ContentCIDs == {"QmTestCID123"}
Prices == {0, 500}
ItemTypes == {0, 2}
Payments == {0, 500, 600}
FeeRates == {0, 250, 1001}

----------------------------------------------------------------------------
(* Program constants *)

NOT_ENTERED == 1
ENTERED == 2
InitialPlatformFee == 250
MaxPlatformFee == 1000
BpsDenominator == 10000

(* failure kinds, carried by the revert reason of the code *)
Ok == "ok"
InvalidPrice == "Price must be greater than 0"
InvalidItemKind == "Invalid item type"
InvalidListingId == "Invalid listing ID"
ListingNotActive == "Listing not active"
InsufficientPayment == "Insufficient payment"
SelfPurchaseForbidden == "Cannot buy your own listing"
SellerTransferFailed == "Transfer to seller failed"
FeeTransferFailed == "Transfer to fee recipient failed"
RefundFailed == "Refund failed"
ListingAlreadyInactive == "Listing already inactive"
NotSellerOrOwner == "Only seller or owner can deactivate"
FeeRateTooHigh == "Fee cannot exceed 10%"
InvalidRecipient == "Invalid address"
Unauthorized == "OwnableUnauthorizedAccount"
InvalidOwner == "OwnableInvalidOwner"
Reentrant == "ReentrancyGuardReentrantCall"
ArithmeticPanic == "Panic(0x11)"

----------------------------------------------------------------------------
(* Storage *)

ZeroListing ==
    [contentCID |-> "", price |-> 0, seller |-> ZeroAddress,
     itemType |-> 0, active |-> FALSE, timestamp |-> 0]

NoHistory ==
    [listed |-> <<>>,
     created |-> [i \in Ids |-> ZeroListing],
     purchased |-> [i \in Ids |-> 0],
     deactivated |-> [i \in Ids |-> 0]]

(* everything a revert restores *)
Storage ==
    [listings |-> listings, listingCount |-> listingCount,
     platformFee |-> platformFee, feeRecipient |-> feeRecipient,
     owner |-> owner, status |-> status, balance |-> balance,
     history |-> history]

NoCall ==
    [fn |-> "none", id |-> 0, err |-> Ok, events |-> <<>>, sent |-> <<>>]

(* what a completed call leaves behind: the revert reason or Ok, the events
   it emitted and the value transfers it made *)
Result(fn, id, err, events) ==
    [fn |-> fn, id |-> id, err |-> err, events |-> events, sent |-> <<>>]

Init ==
    /\ listings = [i \in Ids |-> ZeroListing]
    /\ listingCount = 0
    /\ platformFee = InitialPlatformFee
    /\ feeRecipient = Deployer
    /\ owner = Deployer
    /\ status = NOT_ENTERED
    /\ balance = [a \in Holders |-> IF a = Market THEN 0 ELSE InitialBalance]
    /\ history = NoHistory
    /\ now = 1
    /\ stack = <<>>
    /\ last = NoCall

----------------------------------------------------------------------------
(* Pure parts of the code *)

(* line 123: (listing.price * platformFee) / 10000, checked multiplication *)
MulOverflows(a, b) == a * b > UintMax

(* the fee taken at the rate the contract was deployed with, whatever the
   rate in force *)
FeeAtDeployedRate(price, rate) ==
    (price * InitialPlatformFee) \div BpsDenominator

(* the fee rounded up instead of down *)
FeeRoundedUp(price, rate) ==
    (price * rate + BpsDenominator - 1) \div BpsDenominator

Fee(price, rate) == (price * rate) \div BpsDenominator

(* the seller's share computed on its own, with the default rate and its own
   rounding, instead of as the remainder after the fee *)
SellerAmountOwnRounding(price, fee) ==
    (price * (BpsDenominator - InitialPlatformFee)) \div BpsDenominator

(* line 124: listing.price - fee *)
SellerAmount(price, fee) == price - fee

(* the counter left as it was *)
NextListingIdNoIncrement(cnt) == cnt

(* line 86: listingCount++ *)
NextListingId(cnt) == cnt + 1

(* the record stored one slot too low *)
ListingSlotOffByOne(cnt) == cnt - 1

(* line 88: the key written by listings[listingCount] = ..., given the
   incremented counter *)
ListingSlot(cnt) == cnt

(* listItem without the require on the price *)
ListItemRevertReasonNoPriceCheck(price, itemType) ==
    IF ~(itemType = 0 \/ itemType = 1) THEN InvalidItemKind
    ELSE Ok

(* lines 83-84 *)
ListItemRevertReason(price, itemType) ==
    IF ~(price > 0) THEN InvalidPrice
    ELSE IF ~(itemType = 0 \/ itemType = 1) THEN InvalidItemKind
    ELSE Ok

(* buyItem without the require on listing.active *)
BuyItemRevertReasonNoActiveCheck(st, cnt, rate, l, sender, id, value) ==
    IF st = ENTERED THEN Reentrant
    ELSE IF ~(id > 0 /\ id <= cnt) THEN InvalidListingId
    ELSE IF ~(value >= l.price) THEN InsufficientPayment
    ELSE IF ~(sender # l.seller) THEN SelfPurchaseForbidden
    ELSE IF MulOverflows(l.price, rate) THEN ArithmeticPanic
    ELSE Ok

(* buyItem without the require on msg.sender != listing.seller *)
BuyItemRevertReasonNoSelfCheck(st, cnt, rate, l, sender, id, value) ==
    IF st = ENTERED THEN Reentrant
    ELSE IF ~(id > 0 /\ id <= cnt) THEN InvalidListingId
    ELSE IF ~l.active THEN ListingNotActive
    ELSE IF ~(value >= l.price) THEN InsufficientPayment
    ELSE IF MulOverflows(l.price, rate) THEN ArithmeticPanic
    ELSE Ok

(* buyItem without the nonReentrant modifier *)
BuyItemRevertReasonNoGuard(st, cnt, rate, l, sender, id, value) ==
    IF ~(id > 0 /\ id <= cnt) THEN InvalidListingId
    ELSE IF ~l.active THEN ListingNotActive
    ELSE IF ~(value >= l.price) THEN InsufficientPayment
    ELSE IF ~(sender # l.seller) THEN SelfPurchaseForbidden
    ELSE IF MulOverflows(l.price, rate) THEN ArithmeticPanic
    ELSE Ok

(* buyItem with the payment compared before the active flag is read *)
BuyItemRevertReasonPaymentFirst(st, cnt, rate, l, sender, id, value) ==
    IF st = ENTERED THEN Reentrant
    ELSE IF ~(id > 0 /\ id <= cnt) THEN InvalidListingId
    ELSE IF ~(value >= l.price) THEN InsufficientPayment
    ELSE IF ~l.active THEN ListingNotActive
    ELSE IF ~(sender # l.seller) THEN SelfPurchaseForbidden
    ELSE IF MulOverflows(l.price, rate) THEN ArithmeticPanic
    ELSE Ok

(* buyItem without its reentrancy defences: no guard, active flag not read *)
BuyItemRevertReasonNoDefence(st, cnt, rate, l, sender, id, value) ==
    IF ~(id > 0 /\ id <= cnt) THEN InvalidListingId
    ELSE IF ~(value >= l.price) THEN InsufficientPayment
    ELSE IF ~(sender # l.seller) THEN SelfPurchaseForbidden
    ELSE Ok

(* line 111 (nonReentrant) and lines 114-117, then the checked arithmetic of
   line 123; l is the storage record listings[id] *)
BuyItemRevertReason(st, cnt, rate, l, sender, id, value) ==
    IF st = ENTERED THEN Reentrant
    ELSE IF ~(id > 0 /\ id <= cnt) THEN InvalidListingId
    ELSE IF ~l.active THEN ListingNotActive
    ELSE IF ~(value >= l.price) THEN InsufficientPayment
    ELSE IF ~(sender # l.seller) THEN SelfPurchaseForbidden
    ELSE IF MulOverflows(l.price, rate) THEN ArithmeticPanic
    ELSE Ok

(* deactivateListing open to the owner alone *)
DeactivateRevertReasonOwnerOnly(cnt, l, sender, id, own) ==
    IF ~(id > 0 /\ id <= cnt) THEN InvalidListingId
    ELSE IF ~l.active THEN ListingAlreadyInactive
    ELSE IF ~(sender = own) THEN NotSellerOrOwner
    ELSE Ok

(* deactivateListing open to the seller alone *)
DeactivateRevertReasonSellerOnly(cnt, l, sender, id, own) ==
    IF ~(id > 0 /\ id <= cnt) THEN InvalidListingId
    ELSE IF ~l.active THEN ListingAlreadyInactive
    ELSE IF ~(sender = l.seller) THEN NotSellerOrOwner
    ELSE Ok

(* deactivateListing without the require on the caller *)
DeactivateRevertReasonNoAuth(cnt, l, sender, id, own) ==
    IF ~(id > 0 /\ id <= cnt) THEN InvalidListingId
    ELSE IF ~l.active THEN ListingAlreadyInactive
    ELSE Ok

(* lines 155-162 *)
DeactivateRevertReason(cnt, l, sender, id, own) ==
    IF ~(id > 0 /\ id <= cnt) THEN InvalidListingId
    ELSE IF ~l.active THEN ListingAlreadyInactive
    ELSE IF ~(sender = l.seller \/ sender = own) THEN NotSellerOrOwner
    ELSE Ok

(* the cap of line 174 taken as exclusive *)
UpdatePlatformFeeRevertReasonStrictCap(sender, own, newFee) ==
    IF sender # own THEN Unauthorized
    ELSE IF ~(newFee < MaxPlatformFee) THEN FeeRateTooHigh
    ELSE Ok

(* onlyOwner, then line 174 *)
UpdatePlatformFeeRevertReason(sender, own, newFee) ==
    IF sender # own THEN Unauthorized
    ELSE IF ~(newFee <= MaxPlatformFee) THEN FeeRateTooHigh
    ELSE Ok

(* updateFeeRecipient accepting the zero address *)
UpdateFeeRecipientRevertReasonNoZeroCheck(sender, own, newRecipient) ==
    IF sender # own THEN Unauthorized
    ELSE Ok

(* updateFeeRecipient without onlyOwner *)
UpdateFeeRecipientRevertReasonNoOwnerCheck(sender, own, newRecipient) ==
    IF ~(newRecipient # ZeroAddress) THEN InvalidRecipient
    ELSE Ok

(* onlyOwner, then line 187 *)
UpdateFeeRecipientRevertReason(sender, own, newRecipient) ==
    IF sender # own THEN Unauthorized
    ELSE IF ~(newRecipient # ZeroAddress) THEN InvalidRecipient
    ELSE Ok

(* getListing with the upper end of the id range excluded *)
getListingRevertReasonExclusive(cnt, id) ==
    IF ~(id > 0 /\ id < cnt) THEN InvalidListingId
    ELSE Ok

(* line 203 *)
getListingRevertReason(cnt, id) ==
    IF ~(id > 0 /\ id <= cnt) THEN InvalidListingId
    ELSE Ok

(* getListing reading the record one slot too low *)
getListingOffByOne(ls, id) ==
    LET listing == ls[id - 1]
    IN  <<listing.contentCID, listing.price, listing.seller,
          listing.itemType, listing.active, listing.timestamp>>

(* lines 205-213: the six values getListing returns *)
getListing(ls, id) ==
    LET listing == ls[id]
    IN  <<listing.contentCID, listing.price, listing.seller,
          listing.itemType, listing.active, listing.timestamp>>

(* lines 219-227 *)
RECURSIVE CountActive(_, _, _)
CountActive(ls, cnt, i) ==
    IF i > cnt THEN 0
    ELSE (IF ls[i].active THEN 1 ELSE 0) + CountActive(ls, cnt, i + 1)

(* the loop of line 221 written zero-based: for (i = 0; i < listingCount; i++) *)
getActiveListingsCountZeroBased(ls, cnt) == CountActive(ls, cnt - 1, 0)

getActiveListingsCount(ls, cnt) == CountActive(ls, cnt, 1)

(* the record deleted instead of flagged: delete listings[_listingId] *)
MarkInactiveByDelete(listing) == ZeroListing

(* the flag left as it is until the transfers are made *)
MarkInactiveLate(listing) == listing

(* lines 120 and 164: listing.active = false, on the storage record *)
MarkInactive(listing) == [listing EXCEPT !.active = FALSE]

(* a value transfer between two balances *)
Pay(bal, from, to, amount) ==
    IF from = to THEN bal
    ELSE [bal EXCEPT ![from] = @ - amount, ![to] = @ + amount]

(* buyItem keeping the fee: no transfer to the fee recipient *)
NextStageNoFee(pc, fee, value, price) ==
    IF pc = "start" THEN "seller"
    ELSE IF pc = "seller" /\ value > price THEN "refund"
    ELSE "done"

(* buyItem paying the fee recipient before the seller *)
NextStageFeeFirst(pc, fee, value, price) ==
    IF pc = "start" THEN (IF fee > 0 THEN "fee" ELSE "seller")
    ELSE IF pc = "fee" THEN "seller"
    ELSE IF pc = "seller" /\ value > price THEN "refund"
    ELSE "done"

(* buyItem without the refund of the excess payment *)
NextStageNoRefund(pc, fee, value, price) ==
    IF pc = "start" THEN "seller"
    ELSE IF pc = "seller" /\ fee > 0 THEN "fee"
    ELSE "done"

(* the transfer that follows stage pc of buyItem: lines 127, 130, 136 *)
NextStage(pc, fee, value, price) ==
    IF pc = "start" THEN "seller"
    ELSE IF pc = "seller" /\ fee > 0 THEN "fee"
    ELSE IF pc \in {"seller", "fee"} /\ value > price THEN "refund"
    ELSE "done"

(* lines 128, 132, 138: the require that follows each transfer *)
StageError(stage) ==
    IF stage = "seller" THEN SellerTransferFailed
    ELSE IF stage = "fee" THEN FeeTransferFailed
    ELSE RefundFailed

(* a failure that leaves the guard as the failing call had set it *)
RevertKeepsGuard(snap, current) ==
    [snap EXCEPT !.status = current.status]

(* a failure that is reported without undoing the listing table *)
RevertKeepsListings(snap, current) ==
    [snap EXCEPT !.listings = current.listings]

(* the storage a failed call leaves behind: the EVM restores the state the
   call started from *)
RevertTo(snap, current) == snap

----------------------------------------------------------------------------
(* Actions *)

Restore(s) ==
    /\ listings' = s.listings
    /\ listingCount' = s.listingCount
    /\ platformFee' = s.platformFee
    /\ feeRecipient' = s.feeRecipient
    /\ owner' = s.owner
    /\ status' = s.status
    /\ balance' = s.balance
    /\ history' = s.history

Depth == Len(stack)

(* listItem, lines 78-105 *)
ListItem(sender, contentCID, price, itemType) ==
    LET err == ListItemRevertReason(price, itemType)
        id == NextListingId(listingCount)
    IN  IF err # Ok
        THEN /\ last' = Result("listItem", 0, err, <<>>)
             /\ UNCHANGED <<listings, listingCount, platformFee, feeRecipient,
                            owner, status, balance, history, now, stack>>
        ELSE /\ listingCount < MaxListings
             /\ listingCount' = id
             /\ listings' = [listings EXCEPT ![ListingSlot(id)] =
                    [contentCID |-> contentCID, price |-> price,
                     seller |-> sender, itemType |-> itemType,
                     active |-> TRUE, timestamp |-> now]]
             /\ history' = [history EXCEPT
                    !.listed = Append(@, id),
                    !.created[id] =
                        [contentCID |-> contentCID, price |-> price,
                         seller |-> sender, itemType |-> itemType,
                         active |-> TRUE, timestamp |-> now]]
             /\ last' = Result("listItem", id, Ok, <<[name |-> "ItemListed", listingId |-> id,
                       seller |-> sender, contentCID |-> contentCID,
                       price |-> price, itemType |-> itemType,
                       timestamp |-> now]>>)
             /\ UNCHANGED <<platformFee, feeRecipient, owner, status, balance,
                            now, stack>>

(* buyItem from the end of stage f.pc on: the next transfer hands control to
   its recipient, or the call completes (lines 126-148).  below is the stack
   under the frame, ls / bal / hist the storage the frame has produced. *)
Proceed(below, f, st, ls, bal, hist) ==
    LET l == ls[f.id]
        stage == NextStage(f.pc, f.fee, f.value, l.price)
        to == IF stage = "seller" THEN l.seller
              ELSE IF stage = "fee" THEN feeRecipient
              ELSE f.sender
        amount == IF stage = "seller" THEN f.sellerAmount
                  ELSE IF stage = "fee" THEN f.fee
                  ELSE f.value - l.price
    IN  IF stage = "done"
        THEN /\ listings' = ls
             /\ balance' = bal
             /\ status' = NOT_ENTERED
             /\ history' = [hist EXCEPT !.purchased[f.id] = @ + 1]
             /\ stack' = below
             /\ last' = [fn |-> "buyItem", id |-> f.id, err |-> Ok,
                         events |-> <<[name |-> "ItemPurchased",
                                       listingId |-> f.id, buyer |-> f.sender,
                                       seller |-> l.seller, price |-> l.price,
                                       timestamp |-> now]>>,
                         sent |-> f.sent]
             /\ UNCHANGED <<listingCount, platformFee, feeRecipient, owner, now>>
        ELSE IF amount < 0 \/ bal[Market] < amount
        THEN \* the transfer cannot be made: the call fails at its require
             /\ Restore(RevertTo(f.snap, Storage))
             /\ stack' = below
             /\ last' = Result("buyItem", f.id, StageError(stage), <<>>)
             /\ UNCHANGED now
        ELSE /\ listings' = ls
             /\ balance' = Pay(bal, Market, to, amount)
             /\ history' = hist
             /\ stack' = Append(below,
                    [f EXCEPT !.pc = stage, !.to = to,
                              !.sent = Append(@, [kind |-> stage, to |-> to,
                                                  amount |-> amount])])
             /\ status' = st
             /\ UNCHANGED <<listingCount, platformFee, feeRecipient, owner,
                            now, last>>

(* buyItem, lines 111-127: checks, effects and the first transfer *)
BuyItem(sender, id, value) ==
    LET l == listings[id]
        err == BuyItemRevertReason(status, listingCount, platformFee, l,
                                   sender, id, value)
        fee == Fee(l.price, platformFee)
    IN  /\ balance[sender] >= value
        /\ IF err # Ok
           THEN /\ last' = Result("buyItem", id, err, <<>>)
                /\ UNCHANGED <<listings, listingCount, platformFee,
                               feeRecipient, owner, status, balance, history,
                               now, stack>>
           ELSE /\ Depth < MaxDepth
                /\ Proceed(stack,
                       [sender |-> sender, id |-> id, value |-> value,
                        fee |-> fee, sellerAmount |-> SellerAmount(l.price, fee),
                        pc |-> "start", to |-> ZeroAddress, snap |-> Storage,
                        sent |-> <<[kind |-> "payment", to |-> Market,
                                    amount |-> value]>>],
                       ENTERED,
                       [listings EXCEPT ![id] = MarkInactive(@)],
                       Pay(balance, sender, Market, value),
                       history)

Top == stack[Len(stack)]

(* the recipient of the transfer in progress returns: lines 128-148 *)
CalleeReturns ==
    /\ stack # <<>>
    /\ Proceed(SubSeq(stack, 1, Len(stack) - 1), Top, status, listings,
               balance, history)

(* the recipient of the transfer in progress reverts: the require of line
   128, 132 or 138 fails and the whole call is undone *)
CalleeReverts ==
    /\ stack # <<>>
    /\ Restore(RevertTo(Top.snap, Storage))
    /\ stack' = SubSeq(stack, 1, Len(stack) - 1)
    /\ last' = Result("buyItem", Top.id, StageError(Top.pc), <<>>)
    /\ UNCHANGED now

(* deactivateListing, lines 154-167 *)
DeactivateListing(sender, id) ==
    LET err == DeactivateRevertReason(listingCount, listings[id], sender, id,
                                      owner)
    IN  IF err # Ok
        THEN /\ last' = Result("deactivateListing", id, err, <<>>)
             /\ UNCHANGED <<listings, listingCount, platformFee, feeRecipient,
                            owner, status, balance, history, now, stack>>
        ELSE /\ listings' = [listings EXCEPT ![id] = MarkInactive(@)]
             /\ history' = [history EXCEPT !.deactivated[id] = @ + 1]
             /\ last' = Result("deactivateListing", id, Ok, <<[name |-> "ListingDeactivated", listingId |-> id,
                       seller |-> listings[id].seller, timestamp |-> now]>>)
             /\ UNCHANGED <<listingCount, platformFee, feeRecipient, owner,
                            status, balance, now, stack>>

(* updatePlatformFee, lines 173-180 *)
UpdatePlatformFee(sender, newFee) ==
    LET err == UpdatePlatformFeeRevertReason(sender, owner, newFee)
    IN  IF err # Ok
        THEN /\ last' = Result("updatePlatformFee", 0, err, <<>>)
             /\ UNCHANGED <<listings, listingCount, platformFee, feeRecipient,
                            owner, status, balance, history, now, stack>>
        ELSE /\ platformFee' = newFee
             /\ last' = Result("updatePlatformFee", 0, Ok, <<[name |-> "PlatformFeeUpdated", oldFee |-> platformFee,
                       newFee |-> newFee, timestamp |-> now]>>)
             /\ UNCHANGED <<listings, listingCount, feeRecipient, owner,
                            status, balance, history, now, stack>>

(* updateFeeRecipient, lines 186-189 *)
UpdateFeeRecipient(sender, newRecipient) ==
    LET err == UpdateFeeRecipientRevertReason(sender, owner, newRecipient)
    IN  IF err # Ok
        THEN /\ last' = Result("updateFeeRecipient", 0, err, <<>>)
             /\ UNCHANGED <<listings, listingCount, platformFee, feeRecipient,
                            owner, status, balance, history, now, stack>>
        ELSE /\ feeRecipient' = newRecipient
             /\ last' = Result("updateFeeRecipient", 0, Ok, <<>>)
             /\ UNCHANGED <<listings, listingCount, platformFee, owner,
                            status, balance, history, now, stack>>

(* time passes between transactions *)
Tick ==
    /\ stack = <<>>
    /\ now < MaxTime
    /\ now' = now + 1
    /\ UNCHANGED <<listings, listingCount, platformFee, feeRecipient, owner,
                   status, balance, history, stack, last>>

Next ==
    \/ \E a \in Sellers, c \in ContentCIDs, p \in Prices, t \in ItemTypes :
          ListItem(a, c, p, t)
    \/ \E a \in Actors, i \in Ids, v \in Payments : BuyItem(a, i, v)
    \/ CalleeReturns
    \/ CalleeReverts
    \/ \E a \in Actors, i \in Ids : DeactivateListing(a, i)
    \/ \E a \in Actors, r \in FeeRates : UpdatePlatformFee(a, r)
    \/ \E a \in Actors, r \in Recipients : UpdateFeeRecipient(a, r)

Spec == Init /\ [][Next]_vars

(* the same ledger with the block timestamp advancing between transactions *)
NextTimed == Next \/ Tick

SpecTimed == Init /\ [][NextTimed]_vars

(* the same ledger exercised at the fee cap: every caller of the fee schedule,
   the rates at and around the cap of line 174, purchases by one buyer with
   one payment *)
FeeRatesAtCap == {0, MaxPlatformFee, MaxPlatformFee + 1}
Buyers == {Bob}
FullPayments == {600}

NextFees ==
    \/ \E a \in Sellers, c \in ContentCIDs, p \in Prices, t \in ItemTypes :
          ListItem(a, c, p, t)
    \/ \E a \in Buyers, i \in Ids, v \in FullPayments : BuyItem(a, i, v)
    \/ CalleeReturns
    \/ CalleeReverts
    \/ \E a \in Actors, i \in Ids : DeactivateListing(a, i)
    \/ \E a \in Actors, r \in FeeRatesAtCap : UpdatePlatformFee(a, r)
    \/ \E a \in Actors, r \in Recipients : UpdateFeeRecipient(a, r)

SpecFees == Init /\ [][NextFees]_vars

(* the same ledger exercised on the listing table: two sellers with their
   item types, the block timestamp advancing between transactions, purchases
   by one buyer with one payment *)
ListItemCallers == {<<Alice, 0>>, <<Bob, 1>>, <<Bob, 2>>}
ListingBuyers == {Deployer}

NextListings ==
    \/ \E at \in ListItemCallers, c \in ContentCIDs, p \in Prices :
          ListItem(at[1], c, p, at[2])
    \/ \E a \in ListingBuyers, i \in Ids, v \in FullPayments : BuyItem(a, i, v)
    \/ CalleeReturns
    \/ CalleeReverts
    \/ \E a \in Actors, i \in Ids : DeactivateListing(a, i)
    \/ Tick

SpecListings == Init /\ [][NextListings]_vars

(* the same ledger exercised on purchases: every caller of buyItem (the
   seller among them) with every payment, the fee rate at its default or
   set to zero by the administrator *)
PurchaseFeeRates == {0}

NextPurchase ==
    \/ \E a \in Sellers, c \in ContentCIDs, p \in Prices, t \in ItemTypes :
          ListItem(a, c, p, t)
    \/ \E a \in Actors, i \in Ids, v \in Payments : BuyItem(a, i, v)
    \/ CalleeReturns
    \/ CalleeReverts
    \/ \E a \in Sellers, i \in Ids : DeactivateListing(a, i)
    \/ \E r \in PurchaseFeeRates : UpdatePlatformFee(owner, r)

SpecPurchase == Init /\ [][NextPurchase]_vars

(* the same ledger exercised on content locators: the empty string, a bare
   CID and a URI *)
LocatorCIDs == {"", "QmTestCID123", "ipfs://QmTestCID123"}

NextLocators ==
    \/ \E a \in Sellers, c \in LocatorCIDs, p \in Prices, t \in ItemTypes :
          ListItem(a, c, p, t)
    \/ \E a \in Buyers, i \in Ids, v \in FullPayments : BuyItem(a, i, v)
    \/ CalleeReturns
    \/ CalleeReverts
    \/ \E a \in Sellers, i \in Ids : DeactivateListing(a, i)

SpecLocators == Init /\ [][NextLocators]_vars

(* the purchase exercised on its arithmetic: one listing of alice at a price
   from a wide range, the rate set by the administrator anywhere up to the
   cap, bob holding enough to pay any of the prices *)
WidePrices == {1, 9, 10, 11, 500, 1000, 1001, 2000}
WideRates == {0, 1, 250, 999, MaxPlatformFee}

InitFeeBounds ==
    \E p \in WidePrices, r \in WideRates :
        LET record == [contentCID |-> "QmTestCID123", price |-> p,
                       seller |-> Alice, itemType |-> 0, active |-> TRUE,
                       timestamp |-> 1]
        IN  /\ listings = [i \in Ids |-> IF i = 1 THEN record ELSE ZeroListing]
            /\ listingCount = 1
            /\ platformFee = r
            /\ feeRecipient = Deployer
            /\ owner = Deployer
            /\ status = NOT_ENTERED
            /\ balance = [a \in Holders |-> IF a = Market THEN 0 ELSE UintMax]
            /\ history = [NoHistory EXCEPT !.listed = <<1>>,
                                           !.created[1] = record]
            /\ now = 1
            /\ stack = <<>>
            /\ last = Result("updatePlatformFee", 0, Ok,
                          <<[name |-> "PlatformFeeUpdated",
                             oldFee |-> InitialPlatformFee, newFee |-> r,
                             timestamp |-> 1]>>)

NextFeeBounds ==
    \/ \E a \in Buyers, v \in WidePrices : BuyItem(a, 1, v)
    \/ CalleeReturns
    \/ CalleeReverts

SpecFeeBounds == InitFeeBounds /\ [][NextFeeBounds]_vars

----------------------------------------------------------------------------
(* Type invariant *)

TypeOK ==
    /\ listingCount \in 0 .. MaxListings
    /\ platformFee \in FeeRates \cup FeeRatesAtCap
    /\ feeRecipient \in Actors
    /\ owner = Deployer
    /\ now \in 1 .. MaxTime
    /\ status \in {NOT_ENTERED, ENTERED}
    /\ \A a \in Holders : balance[a] >= 0
    /\ Len(stack) <= MaxDepth

----------------------------------------------------------------------------
(* Vocabulary of the properties *)

RECURSIVE SumKind(_, _)
(* total amount of the transfers of one kind in a list of transfers *)
SumKind(sent, kind) ==
    IF sent = <<>> THEN 0
    ELSE (IF Head(sent).kind = kind THEN Head(sent).amount ELSE 0)
         + SumKind(Tail(sent), kind)

(* the step is the call buyItem(i) by a with payment v: such a call either
   ends at once, leaving its result, or pushes a frame *)
BuyItemCall(a, i, v) ==
    /\ \/ Len(stack') > Len(stack)
       \/ stack' = stack /\ last'.fn = "buyItem" /\ last'.id = i
    /\ BuyItem(a, i, v)

BuyItemStep ==
    \/ \E a \in Actors, i \in Ids, v \in Payments : BuyItem(a, i, v)
    \/ CalleeReturns
    \/ CalleeReverts

(* a step in which a buyItem call ends in failure: at its checks (nothing was
   pushed) or at the require after one of its transfers (its frame is gone) *)
BuyItemFailed ==
    /\ last'.fn = "buyItem" /\ last'.err # Ok
    /\ \/ stack' = stack
       \/ Len(stack') < Len(stack)
    /\ BuyItemStep

(* a step in which a buyItem call completes *)
BuyItemSucceeded ==
    /\ last'.fn = "buyItem" /\ last'.err = Ok
    /\ Len(stack') < Len(stack)
    /\ BuyItemStep

(* the storage at the moment the call that ends in this step was made *)
PreCall == IF Len(stack') < Len(stack) THEN Top.snap ELSE Storage

LastBuyOk == last.fn = "buyItem" /\ last.err = Ok

----------------------------------------------------------------------------
(* C1  Conservation: for every successful buyItem, the amount sent to the
   seller plus the amount sent to the fee recipient (0 when no fee transfer
   is made) is exactly the price, and the payment minus the refund (0 when
   nothing is refunded) is exactly the price. *)
C1_Conservation ==
    LastBuyOk =>
        LET price == listings[last.id].price
        IN  /\ SumKind(last.sent, "seller") + SumKind(last.sent, "fee") = price
            /\ SumKind(last.sent, "payment") - SumKind(last.sent, "refund")
                 = price

C1_Witness ==
    /\ LastBuyOk
    /\ SumKind(last.sent, "fee") > 0
    /\ SumKind(last.sent, "refund") > 0
    /\ SumKind(last.sent, "seller") > 0

(* C2  Full rollback: a buyItem call that fails, whatever the failure kind
   and also after the listing was marked inactive, leaves the storage (the
   listings, listingCount, the fee schedule, the guard, every balance and the
   events) exactly as it was when the call was made. *)
C2_FullRollback ==
    [][BuyItemFailed => Storage' = PreCall]_vars

C2_Witness ==
    /\ last.fn = "buyItem"
    /\ last.err = RefundFailed
    /\ stack = <<>>
    /\ listings[last.id].active
    /\ balance[Market] = 0

(* C3  Reentrancy closure: a buyItem made from a transfer callback on the id
   of a buyItem in progress fails with ListingNotActive or Reentrant and
   changes nothing; over the whole call chain the listing is settled at most
   once: no two buyItem frames on one id, one payment held, one purchase
   (a condition on the stack and the events, checked whenever they change). *)
FrameOn(id) == \E k \in DOMAIN stack : stack[k].id = id

ChainSettlesOnce ==
    /\ \A id \in Ids : history.purchased[id] <= 1
    /\ \A k \in DOMAIN stack :
          /\ history.purchased[stack[k].id] = 0
          /\ \A j \in DOMAIN stack : j # k => stack[j].id # stack[k].id
          /\ SumKind(stack[k].sent, "seller") = stack[k].sellerAmount
          /\ SumKind(stack[k].sent, "payment") = stack[k].value

(* a step that is a buyItem(i) made while a buyItem(i) is in progress *)
NestedBuyItemOn(i) ==
    /\ FrameOn(i)
    /\ \E a \in Actors, v \in Payments : BuyItemCall(a, i, v)

C3_ReentrancyClosure ==
    [][/\ \A i \in Ids : NestedBuyItemOn(i) =>
             /\ last'.fn = "buyItem"
             /\ last'.err \in {ListingNotActive, Reentrant}
             /\ stack' = stack
             /\ Storage' = Storage
       /\ (stack' # stack \/ history' # history) => ChainSettlesOnce']_vars

C3_Witness ==
    /\ stack # <<>>
    /\ last.fn = "buyItem"
    /\ last.err = Reentrant
    /\ last.id = Top.id
    /\ ~listings[Top.id].active

(* C4  Call-depth guard on every state-changing entry point: a call of
   listItem, buyItem, deactivateListing, updatePlatformFee or
   updateFeeRecipient made while a buyItem is in progress fails with
   Reentrant and changes no state. *)
EntryPointCall ==
    \/ \E a \in Actors, c \in ContentCIDs, p \in Prices, t \in ItemTypes :
          ListItem(a, c, p, t)
    \/ \E a \in Actors, i \in Ids, v \in Payments : BuyItem(a, i, v)
    \/ \E a \in Actors, i \in Ids : DeactivateListing(a, i)
    \/ \E a \in Actors, r \in FeeRates : UpdatePlatformFee(a, r)
    \/ \E a \in Actors, r \in Recipients : UpdateFeeRecipient(a, r)

C4_GuardOnEveryEntryPoint ==
    [][(stack # <<>> /\ EntryPointCall) =>
           /\ last'.err = Reentrant
           /\ stack' = stack
           /\ Storage' = Storage]_vars

(* what C4 rules out and the code does: a listItem made from a transfer
   callback of buyItem succeeds and creates a listing *)
C4_NestedListItemSucceeds ==
    /\ stack # <<>>
    /\ last.fn = "listItem"
    /\ last.err = Ok
    /\ listingCount > Top.snap.listingCount

(* C5  Single transition: a listing that is inactive in a committed state
   (no call in progress, or the state the outermost call in progress started
   from) is inactive in every later state, committed or not. *)
CommittedStorage == IF stack = <<>> THEN Storage ELSE stack[1].snap

CommittedInactive(id) ==
    /\ id >= 1
    /\ id <= CommittedStorage.listingCount
    /\ ~CommittedStorage.listings[id].active

C5_SingleTransition ==
    [][\A id \in Ids :
          CommittedInactive(id) =>
              /\ CommittedInactive(id)'
              /\ id <= listingCount'
              /\ ~listings'[id].active]_vars

C5_Witness ==
    /\ stack = <<>>
    /\ last.err \in {ListingNotActive, ListingAlreadyInactive}
    /\ CommittedInactive(last.id)
    /\ listingCount = MaxListings

(* C6  At most one settlement per listing: no id is purchased twice or both
   purchased and deactivated; a buyItem on a purchased or deactivated listing
   made as a transaction of its own fails with ListingNotActive, and a
   deactivateListing on such a listing fails with ListingAlreadyInactive. *)
Retired(id) == id >= 1 /\ id <= listingCount /\ ~listings[id].active

C6_OneSettlementPerListing ==
    /\ \A id \in Ids :
          /\ history.purchased[id] + history.deactivated[id] <= 1
          /\ history.purchased[id] = 1 => Retired(id)
    /\ \A id \in Ids : Retired(id) =>
          /\ \A a \in Actors, v \in Payments :
                stack = <<>> =>
                    BuyItemRevertReason(status, listingCount, platformFee,
                        listings[id], a, id, v) = ListingNotActive
          /\ \A a \in Actors :
                DeactivateRevertReason(listingCount, listings[id], a, id,
                                       owner) = ListingAlreadyInactive
    /\ (last.fn = "buyItem" /\ last.err = Ok) =>
          history.purchased[last.id] = 1

C6_Witness ==
    /\ stack = <<>>
    /\ last.fn = "buyItem"
    /\ last.err = ListingNotActive
    /\ history.purchased[last.id] = 1

(* C7  Monotonic ids: the ids assigned by the successful listItem calls are
   1, 2, 3, ... in order, listingCount is their number, a step changes
   listingCount only by a successful listItem (by exactly one, to the id it
   returns) or by undoing the listItem calls of a failed call chain. *)
IdsSequential ==
    /\ Len(history.listed) = listingCount
    /\ \A k \in 1 .. Len(history.listed) : history.listed[k] = k

ListItemSucceeded ==
    /\ last'.fn = "listItem" /\ last'.err = Ok
    /\ stack' = stack
    /\ \E a \in Actors, c \in ContentCIDs, p \in Prices, t \in ItemTypes :
          ListItem(a, c, p, t)

C7_MonotonicIds ==
    [][/\ IdsSequential'
       /\ ListItemSucceeded =>
             /\ listingCount' = listingCount + 1
             /\ last'.id = listingCount'
       /\ listingCount' # listingCount =>
             \/ ListItemSucceeded
             \/ BuyItemFailed /\ listingCount' = PreCall.listingCount]_vars

C7_Witness ==
    /\ last.fn = "listItem"
    /\ last.err = Ok
    /\ last.id = 2
    /\ listingCount = 2
    /\ history.listed = <<1, 2>>

(* C8  No self-trade, as claimed: a buyItem made by the seller of an existing
   listing fails with SelfPurchaseForbidden and moves no funds. *)
C8_SelfTradeAlwaysSelfPurchaseForbidden ==
    [][\A i \in 1 .. listingCount, v \in Payments :
          BuyItemCall(listings[i].seller, i, v) =>
              /\ last'.fn = "buyItem"
              /\ last'.err = SelfPurchaseForbidden
              /\ balance' = balance]_vars

(* C8  No self-trade, amended: a buyItem made by the seller of an existing
   listing always fails, changes no storage and moves no funds; the failure
   is SelfPurchaseForbidden when no buyItem is in progress, the listing is
   active and the payment covers the price, and otherwise that of the
   earlier check: Reentrant, ListingNotActive or InsufficientPayment. *)
C8_NoSelfTrade ==
    [][\A i \in 1 .. listingCount, v \in Payments :
          BuyItemCall(listings[i].seller, i, v) =>
              /\ last'.fn = "buyItem"
              /\ last'.id = i
              /\ stack' = stack
              /\ Storage' = Storage
              /\ last'.err =
                   IF status = ENTERED THEN Reentrant
                   ELSE IF ~listings[i].active THEN ListingNotActive
                   ELSE IF v < listings[i].price THEN InsufficientPayment
                   ELSE SelfPurchaseForbidden]_vars

C8_Witness ==
    /\ last.fn = "buyItem"
    /\ last.err = SelfPurchaseForbidden
    /\ listings[last.id].active
    /\ \A a \in Holders : balance[a] = IF a = Market THEN 0 ELSE InitialBalance

(* C9  Payment bounds, as claimed: over a successful purchase the balance of
   the seller grows by at most price minus fee and the balance of the buyer
   shrinks by at least the price, whoever the parties are. *)
C9_PaymentBoundsForAllIdentities ==
    [][BuyItemSucceeded =>
          LET f == Top
              l == listings[f.id]
          IN  /\ balance'[l.seller] - f.snap.balance[l.seller]
                   <= l.price - f.fee
              /\ f.snap.balance[f.sender] - balance'[f.sender]
                   >= l.price]_vars

(* the address the fee of a completed purchase went to, if any *)
FeePaidTo(sent, a) ==
    \E k \in DOMAIN sent : sent[k].kind = "fee" /\ sent[k].to = a

(* C9  Payment bounds, amended: over a successful purchase the transfer to
   the seller is price minus fee and the buyer is left with payment minus
   price refunded; the balance of the seller grows by exactly price minus
   fee and that of the buyer shrinks by exactly the price, except that a
   seller or a buyer who is the fee recipient also collects the fee (the
   seller then gains the whole price, the buyer then pays price minus fee). *)
C9_PaymentBounds ==
    [][BuyItemSucceeded =>
          LET f == Top
              l == listings[f.id]
              feeTo(a) == IF FeePaidTo(f.sent, a) THEN f.fee ELSE 0
          IN  /\ SumKind(f.sent, "seller") = l.price - f.fee
              /\ SumKind(f.sent, "refund") = f.value - l.price
              /\ balance'[l.seller] - f.snap.balance[l.seller]
                   = l.price - f.fee + feeTo(l.seller)
              /\ f.snap.balance[f.sender] - balance'[f.sender]
                   = l.price - feeTo(f.sender)]_vars

(* a completed purchase whose seller was the fee recipient, with a fee *)
C9_Witness ==
    /\ LastBuyOk
    /\ \E k \in DOMAIN last.sent :
          /\ last.sent[k].kind = "fee"
          /\ last.sent[k].amount > 0
          /\ last.sent[k].to = listings[last.id].seller

(* C10  Fee formula: a successful buyItem sends floor(price * rate / 10000)
   to the fee recipient, rate being the fee rate at the call, and price
   minus that to the seller; a listing at 500 bought with 600 at rate 250
   sends 488, 12 and refunds 100; the listing is inactive afterwards and
   getActiveListingsCount() is one less than before the call. *)
C10_FeeFormula ==
    [][BuyItemSucceeded =>
          LET f == Top
              pre == f.snap
              price == pre.listings[f.id].price
              fee == (price * pre.platformFee) \div BpsDenominator
          IN  /\ SumKind(f.sent, "fee") = fee
              /\ SumKind(f.sent, "seller") = price - fee
              /\ (price = 500 /\ f.value = 600 /\ pre.platformFee = 250) =>
                     /\ SumKind(f.sent, "seller") = 488
                     /\ SumKind(f.sent, "fee") = 12
                     /\ SumKind(f.sent, "refund") = 100
              /\ ~listings'[f.id].active
              /\ getActiveListingsCount(listings', listingCount')
                   = getActiveListingsCount(pre.listings, pre.listingCount)
                       - 1]_vars

(* the part of C10 about the amounts and the flag, which the code satisfies *)
C10_AmountsAndFlag ==
    [][BuyItemSucceeded =>
          LET f == Top
              pre == f.snap
              price == pre.listings[f.id].price
              fee == (price * pre.platformFee) \div BpsDenominator
          IN  /\ SumKind(f.sent, "fee") = fee
              /\ SumKind(f.sent, "seller") = price - fee
              /\ (price = 500 /\ f.value = 600 /\ pre.platformFee = 250) =>
                     /\ SumKind(f.sent, "seller") = 488
                     /\ SumKind(f.sent, "fee") = 12
                     /\ SumKind(f.sent, "refund") = 100
              /\ ~listings'[f.id].active]_vars

----------------------------------------------------------------------------
(* Vocabulary of the fee-schedule properties *)

(* the step is the call updatePlatformFee(r) by a *)
UpdatePlatformFeeCall(a, r) ==
    /\ last'.fn = "updatePlatformFee"
    /\ stack' = stack
    /\ UpdatePlatformFee(a, r)

(* the step is the call updateFeeRecipient(r) by a *)
UpdateFeeRecipientCall(a, r) ==
    /\ last'.fn = "updateFeeRecipient"
    /\ stack' = stack
    /\ UpdateFeeRecipient(a, r)

(* C11  Fee cap boundary, as claimed: updatePlatformFee(1001) fails with
   FeeRateTooHigh whoever calls it and leaves the rate unchanged;
   updatePlatformFee(1000) by the administrator succeeds and sets the rate
   to 1000. *)
C11_FeeCapForEveryCaller ==
    [][/\ \A a \in Actors : UpdatePlatformFeeCall(a, 1001) =>
             /\ last'.err = FeeRateTooHigh
             /\ platformFee' = platformFee
       /\ UpdatePlatformFeeCall(owner, 1000) =>
             /\ last'.err = Ok
             /\ platformFee' = 1000]_vars

(* C11  Fee cap boundary, amended: updatePlatformFee(1001) always fails and
   leaves the rate (and all storage) unchanged, with FeeRateTooHigh when the
   caller is the administrator and with Unauthorized otherwise;
   updatePlatformFee(1000) by the administrator always succeeds and sets the
   rate to 1000. *)
C11_FeeCapBoundary ==
    [][/\ \A a \in Actors : UpdatePlatformFeeCall(a, 1001) =>
             /\ last'.err = IF a = owner THEN FeeRateTooHigh ELSE Unauthorized
             /\ platformFee' = platformFee
             /\ Storage' = Storage
       /\ UpdatePlatformFeeCall(owner, 1000) =>
             /\ last'.err = Ok
             /\ platformFee' = 1000]_vars

(* the rate was set to 1000 and a later updatePlatformFee(1001) by the
   administrator was rejected *)
C11_Witness ==
    /\ last.fn = "updatePlatformFee"
    /\ last.err = FeeRateTooHigh
    /\ platformFee = 1000

(* C12  Fee-schedule invariant: the initial state has the rate 250 and the
   deployer as both fee recipient and administrator; in every reachable
   state the rate is in 0 .. 1000 and the fee recipient is not the zero
   address. *)
C12_FeeScheduleInvariant ==
    /\ platformFee >= 0
    /\ platformFee <= 1000
    /\ feeRecipient # ZeroAddress
    /\ last.fn = "none" =>
          /\ platformFee = 250
          /\ feeRecipient = Deployer
          /\ owner = Deployer

(* the schedule was moved to the cap and to another recipient, and an
   attempt to set the zero address was then rejected *)
C12_Witness ==
    /\ last.fn = "updateFeeRecipient"
    /\ last.err = InvalidRecipient
    /\ platformFee = 1000
    /\ feeRecipient = Alice

(* C13  Administrator-only fee schedule: updatePlatformFee and
   updateFeeRecipient called by anyone but the administrator fail with
   Unauthorized and leave the rate and the recipient unchanged;
   updateFeeRecipient(zero address) by the administrator fails with
   InvalidRecipient; a step changes the rate or the recipient only by a
   successful call of the administrator, or by undoing such calls when the
   buyItem they were made from fails. *)
FeeSchedule == <<platformFee, feeRecipient>>

C13_AdministratorOnly ==
    [][/\ \A a \in Actors \ {owner} :
             /\ \A r \in FeeRatesAtCap : UpdatePlatformFeeCall(a, r) =>
                    /\ last'.err = Unauthorized
                    /\ FeeSchedule' = FeeSchedule
             /\ \A r \in Recipients : UpdateFeeRecipientCall(a, r) =>
                    /\ last'.err = Unauthorized
                    /\ FeeSchedule' = FeeSchedule
       /\ UpdateFeeRecipientCall(owner, ZeroAddress) =>
             /\ last'.err = InvalidRecipient
             /\ FeeSchedule' = FeeSchedule
       /\ FeeSchedule' # FeeSchedule =>
             \/ /\ last'.err = Ok
                /\ \/ \E r \in FeeRatesAtCap : UpdatePlatformFeeCall(owner, r)
                   \/ \E r \in Recipients : UpdateFeeRecipientCall(owner, r)
             \/ /\ BuyItemFailed
                /\ platformFee' = PreCall.platformFee
                /\ feeRecipient' = PreCall.feeRecipient]_vars

(* after the administrator changed the schedule, another actor's
   updateFeeRecipient was rejected *)
C13_Witness ==
    /\ last.fn = "updateFeeRecipient"
    /\ last.err = Unauthorized
    /\ platformFee = 1000
    /\ feeRecipient = Alice

(* C14  Fee-update events: a successful updatePlatformFee emits one event
   with the old and the new rate, a successful updateFeeRecipient emits one
   event with the old and the new recipient, and a failed update emits no
   event. *)
C14_FeeUpdateEvents ==
    [][/\ \A a \in Actors, r \in FeeRatesAtCap : UpdatePlatformFeeCall(a, r) =>
             IF last'.err = Ok
             THEN /\ Len(last'.events) = 1
                  /\ last'.events[1].name = "PlatformFeeUpdated"
                  /\ last'.events[1].oldFee = platformFee
                  /\ last'.events[1].newFee = r
             ELSE last'.events = <<>>
       /\ \A a \in Actors, r \in Recipients : UpdateFeeRecipientCall(a, r) =>
             IF last'.err = Ok
             THEN /\ Len(last'.events) = 1
                  /\ last'.events[1].name = "FeeRecipientUpdated"
                  /\ last'.events[1].oldRecipient = feeRecipient
                  /\ last'.events[1].newRecipient = r
             ELSE last'.events = <<>>]_vars

(* the part of C14 the code satisfies: the event of updatePlatformFee, and no
   event from a failed update *)
C14_RateEventOnly ==
    [][/\ \A a \in Actors, r \in FeeRatesAtCap : UpdatePlatformFeeCall(a, r) =>
             IF last'.err = Ok
             THEN /\ Len(last'.events) = 1
                  /\ last'.events[1].name = "PlatformFeeUpdated"
                  /\ last'.events[1].oldFee = platformFee
                  /\ last'.events[1].newFee = r
             ELSE last'.events = <<>>
       /\ \A a \in Actors, r \in Recipients : UpdateFeeRecipientCall(a, r) =>
             (last'.err # Ok => last'.events = <<>>)]_vars

(* what C14 rules out and the code does: a successful updateFeeRecipient that
   changed the recipient and emitted nothing *)
C14_SilentRecipientChange ==
    /\ last.fn = "updateFeeRecipient"
    /\ last.err = Ok
    /\ last.events = <<>>
    /\ feeRecipient = Alice

----------------------------------------------------------------------------
(* Vocabulary of the deactivation properties *)

(* the step is the call deactivateListing(i) by a *)
DeactivateCall(a, i) ==
    /\ last'.fn = "deactivateListing"
    /\ last'.id = i
    /\ stack' = stack
    /\ DeactivateListing(a, i)

(* C15  Deactivation rights: deactivateListing(id) on an existing active
   listing, called by the seller of the listing or by the administrator,
   succeeds, sets active to false and emits one ListingDeactivated event for
   id; called by anyone else it fails with the unauthorized-caller error and
   the listing stays active, nothing being changed. *)
C15_DeactivationRights ==
    [][\A i \in 1 .. listingCount, a \in Actors :
          (listings[i].active /\ DeactivateCall(a, i)) =>
              IF a = listings[i].seller \/ a = owner
              THEN /\ last'.err = Ok
                   /\ listings' = [listings EXCEPT ![i].active = FALSE]
                   /\ Len(last'.events) = 1
                   /\ last'.events[1].name = "ListingDeactivated"
                   /\ last'.events[1].listingId = i
                   /\ history'.deactivated[i] = history.deactivated[i] + 1
              ELSE /\ last'.err = NotSellerOrOwner
                   /\ listings'[i].active
                   /\ Storage' = Storage]_vars

(* one listing was deactivated, and a deactivateListing on another, active
   one was refused to its caller *)
C15_Witness ==
    /\ last.fn = "deactivateListing"
    /\ last.err = NotSellerOrOwner
    /\ listings[last.id].active
    /\ \E j \in Ids : history.deactivated[j] = 1

(* C16  Seller-only deactivation, as claimed: a deactivateListing call
   succeeds only when its caller is the seller of the listing. *)
C16_SellerOnlyDeactivation ==
    [][\A i \in 1 .. listingCount, a \in Actors :
          (DeactivateCall(a, i) /\ last'.err = Ok) =>
              a = listings[i].seller]_vars

(* C16  Deactivation, amended: a deactivateListing call succeeds only when
   its caller is the seller of the listing or the administrator, and an
   active listing becomes inactive in a step only by such a call or by a
   buyItem on it passing its checks. *)
C16_SellerOrAdministratorOnly ==
    [][\A i \in 1 .. listingCount :
          /\ \A a \in Actors :
                (DeactivateCall(a, i) /\ last'.err = Ok) =>
                    (a = listings[i].seller \/ a = owner)
          /\ (listings[i].active /\ ~listings'[i].active
                 /\ i <= listingCount') =>
                \/ /\ last'.err = Ok
                   /\ \E a \in {listings[i].seller, owner} :
                         DeactivateCall(a, i)
                \/ /\ Len(stack') > Len(stack)
                   /\ stack'[Len(stack')].id = i
                   /\ \E a \in Actors \ {listings[i].seller},
                         v \in Payments : BuyItem(a, i, v)]_vars

(* a listing that was never purchased is inactive after a successful
   deactivateListing, while another listing is still active *)
C16_Witness ==
    /\ last.fn = "deactivateListing"
    /\ last.err = Ok
    /\ ~listings[last.id].active
    /\ history.purchased[last.id] = 0
    /\ history.deactivated[last.id] = 1
    /\ getActiveListingsCount(listings, listingCount) > 0

----------------------------------------------------------------------------
(* Vocabulary of the listing-table properties *)

(* what the events say about listing id: the record its ItemListed event
   announced, active until an ItemPurchased or a ListingDeactivated for id
   (or while a buyItem on id is in progress, which has cleared the flag) *)
Announced(id) ==
    LET c == history.created[id]
    IN  <<c.contentCID, c.price, c.seller, c.itemType,
          history.purchased[id] = 0 /\ history.deactivated[id] = 0
              /\ ~FrameOn(id),
          c.timestamp>>

(* C17  getListing range and permanent history: getListing fails with
   InvalidListingId for id 0 and for every id above listingCount
   (listingCount + 1 among them); every id ever assigned by listItem is in
   1 .. listingCount, and getListing returns for it the record announced
   when it was listed, with its current active flag, whether the listing is
   active, purchased or deactivated: no listing is ever removed. *)
C17_GetListing ==
    /\ getListingRevertReason(listingCount, 0) = InvalidListingId
    /\ getListingRevertReason(listingCount, listingCount + 1)
          = InvalidListingId
    /\ \A id \in Ids : id > listingCount =>
          getListingRevertReason(listingCount, id) = InvalidListingId
    /\ Len(history.listed) = listingCount
    /\ \A k \in DOMAIN history.listed :
          LET id == history.listed[k]
          IN  /\ getListingRevertReason(listingCount, id) = Ok
              /\ getListing(listings, id) = Announced(id)

(* two listings of different sellers and types, one purchased and one
   deactivated, both still returned by getListing *)
C17_Witness ==
    /\ stack = <<>>
    /\ listingCount = 2
    /\ \E i, j \in 1 .. 2 :
          /\ history.purchased[i] = 1
          /\ history.deactivated[j] = 1
          /\ getListing(listings, i)[3] # getListing(listings, j)[3]
          /\ getListing(listings, i)[4] # getListing(listings, j)[4]
          /\ ~getListing(listings, i)[5]
          /\ ~getListing(listings, j)[5]

RECURSIVE Total(_, _)
(* f[1] + ... + f[n] *)
Total(f, n) == IF n = 0 THEN 0 ELSE f[n] + Total(f, n - 1)

(* C18  Active count consistency: getActiveListingsCount() is the number of
   ids in 1 .. listingCount whose active flag is true, and it equals the
   number of successful listItem calls minus the successful buyItem calls
   minus the successful deactivateListing calls, a buyItem still making its
   transfers counting as one more; it is 0 initially. *)
C18_ActiveCount ==
    LET count == getActiveListingsCount(listings, listingCount)
    IN  /\ count = Cardinality({i \in 1 .. listingCount : listings[i].active})
        /\ count = Len(history.listed)
                     - Total(history.purchased, listingCount)
                     - Total(history.deactivated, listingCount)
                     - Len(stack)
        /\ last.fn = "none" => count = 0

(* after two listItem calls and one purchase, with no call in progress, one
   listing is counted *)
C18_Witness ==
    /\ stack = <<>>
    /\ Len(history.listed) = 2
    /\ Total(history.purchased, listingCount) = 1
    /\ Total(history.deactivated, listingCount) = 0
    /\ getActiveListingsCount(listings, listingCount) = 1

(* the fields of a listing record that are set at creation *)
CreationFields(l) ==
    <<l.contentCID, l.price, l.seller, l.itemType, l.timestamp>>

(* C19  Immutable record fields: in every step, every listing that exists
   before and after it keeps its contentCID, price, seller, itemType and
   timestamp, so that active is the only field of an existing record that
   changes; a record that is inactive changes in a step only when a failing
   buyItem restores what it held when that call was made, and a record that
   is inactive with no call pending on it never changes again. *)
C19_ImmutableFields ==
    [][\A id \in 1 .. listingCount :
          id <= listingCount' =>
              /\ CreationFields(listings'[id]) = CreationFields(listings[id])
              /\ (~listings[id].active /\ listings'[id] # listings[id]) =>
                     /\ BuyItemFailed
                     /\ listings'[id] = PreCall.listings[id]
              /\ CommittedInactive(id) => listings'[id] = listings[id]]_vars

(* a purchased or deactivated listing created at an earlier time, on which a
   further buyItem or deactivateListing has just been refused *)
C19_Witness ==
    /\ stack = <<>>
    /\ last.err \in {ListingNotActive, ListingAlreadyInactive}
    /\ last.id \in 1 .. listingCount
    /\ ~listings[last.id].active
    /\ listings[last.id].timestamp < now
    /\ CreationFields(listings[last.id])
          = CreationFields(history.created[last.id])

(* the step is the call listItem(c, p, t) by a *)
ListItemCall(a, c, p, t) ==
    /\ last'.fn = "listItem"
    /\ stack' = stack
    /\ ListItem(a, c, p, t)

(* C20  listItem validation: listItem with price 0 fails with InvalidPrice,
   and with a positive price and an item type other than 0 and 1 it fails
   with InvalidItemKind (the price is checked first), in both cases leaving
   listingCount and every listing unchanged; otherwise it stores under the
   next id a record with active = true, seller = the caller, the given
   locator, price and type, and emits one ItemListed event with the new id
   and those fields.  Every stored listing has price > 0 and type 0 or 1. *)
C20_ListItemValidation ==
    [][/\ \A at \in ListItemCallers, c \in ContentCIDs, p \in Prices :
             ListItemCall(at[1], c, p, at[2]) =>
                 IF p = 0
                 THEN last'.err = InvalidPrice /\ Storage' = Storage
                 ELSE IF at[2] \notin {0, 1}
                 THEN last'.err = InvalidItemKind /\ Storage' = Storage
                 ELSE /\ last'.err = Ok
                      /\ last'.id = listingCount + 1
                      /\ listingCount' = listingCount + 1
                      /\ listings' = [listings EXCEPT ![listingCount + 1] =
                             [contentCID |-> c, price |-> p, seller |-> at[1],
                              itemType |-> at[2], active |-> TRUE,
                              timestamp |-> now]]
                      /\ Len(last'.events) = 1
                      /\ last'.events[1].name = "ItemListed"
                      /\ last'.events[1].listingId = listingCount + 1
                      /\ last'.events[1].seller = at[1]
                      /\ last'.events[1].contentCID = c
                      /\ last'.events[1].price = p
                      /\ last'.events[1].itemType = at[2]
       /\ \A id \in 1 .. listingCount' :
             /\ listings'[id].price > 0
             /\ listings'[id].itemType \in {0, 1}]_vars

(* after alice listed an item of type 0, bob listed one of type 1 at a later
   time *)
C20_Witness ==
    /\ last.fn = "listItem"
    /\ last.err = Ok
    /\ last.id = 2
    /\ listings[1].seller = Alice
    /\ listings[1].itemType = 0
    /\ listings[2].seller = Bob
    /\ listings[2].itemType = 1
    /\ listings[2].active
    /\ listings[2].timestamp > listings[1].timestamp

----------------------------------------------------------------------------
(* Properties of the purchase *)

(* C21  Effects before external calls: whenever a transfer of buyItem is in
   progress (to the seller, the fee recipient or the buyer), the listing
   being bought is inactive in storage and getListing returns it as
   inactive, so every call made from the transfer callback observes it as
   inactive. *)
C21_EffectsBeforeCalls ==
    \A k \in DOMAIN stack :
        /\ stack[k].pc \in {"seller", "fee", "refund"}
        /\ ~listings[stack[k].id].active
        /\ ~getListing(listings, stack[k].id)[5]

(* during the refund, the last of the transfers, a deactivateListing made
   from the callback on the listing being bought found it inactive *)
C21_Witness ==
    /\ stack # <<>>
    /\ Top.pc = "refund"
    /\ last.fn = "deactivateListing"
    /\ last.err = ListingAlreadyInactive
    /\ last.id = Top.id

(* C22  Content locator round-trip: whether listItem succeeds depends on the
   price and the item type only, never on the locator (the empty string is
   accepted as any other); after a successful listItem(c, ...) getListing of
   the new id returns c as its locator, and getListing of every id keeps
   returning the locator its ItemListed event announced. *)
C22_LocatorRoundTrip ==
    [][/\ \A a \in Sellers, c \in LocatorCIDs, p \in Prices, t \in ItemTypes :
             ListItemCall(a, c, p, t) =>
                 /\ (last'.err = Ok) <=> (p > 0 /\ t \in {0, 1})
                 /\ last'.err = Ok =>
                        /\ getListingRevertReason(listingCount', last'.id) = Ok
                        /\ getListing(listings', last'.id)[1] = c
       /\ \A id \in 1 .. listingCount' :
             /\ getListing(listings', id)[1] = history'.created[id].contentCID
             /\ id <= listingCount =>
                    getListing(listings', id)[1] = getListing(listings, id)[1]
      ]_vars

(* a listing with the empty locator and one with a URI, both returned as
   passed, after the first was purchased *)
C22_Witness ==
    /\ listingCount = 2
    /\ getListing(listings, 1)[1] = ""
    /\ getListing(listings, 2)[1] = "ipfs://QmTestCID123"
    /\ history.purchased[1] = 1
    /\ last.fn = "listItem"
    /\ last.err = Ok

(* the first violated precondition of buyItem(i) by a with payment v, in the
   order of the claim; Ok when all four hold *)
FirstViolated(a, i, v) ==
    IF ~(i >= 1 /\ i <= listingCount) THEN InvalidListingId
    ELSE IF ~listings[i].active THEN ListingNotActive
    ELSE IF v < listings[i].price THEN InsufficientPayment
    ELSE IF a = listings[i].seller THEN SelfPurchaseForbidden
    ELSE Ok

(* C23  buyItem precondition order, as claimed: a buyItem with a violated
   precondition fails at once with the first violated one in the order
   InvalidListingId, ListingNotActive, InsufficientPayment,
   SelfPurchaseForbidden, whenever it is called. *)
C23_OrderWheneverCalled ==
    [][\A a \in Actors, i \in Ids, v \in Payments :
          (BuyItemCall(a, i, v) /\ FirstViolated(a, i, v) # Ok) =>
              /\ stack' = stack
              /\ last'.fn = "buyItem"
              /\ last'.err = FirstViolated(a, i, v)]_vars

(* C23  buyItem precondition order, amended: a buyItem proceeds to its
   transfers only if 1 <= id <= listingCount, the listing is active, the
   payment covers the price and the caller is not the seller; called while
   no buyItem is in progress, it fails with the first violated one in the
   order InvalidListingId, ListingNotActive, InsufficientPayment,
   SelfPurchaseForbidden; called from a transfer callback of a buyItem in
   progress, it fails with Reentrant whatever its preconditions. *)
C23_PreconditionOrder ==
    [][\A a \in Actors, i \in Ids, v \in Payments :
          BuyItemCall(a, i, v) =>
              /\ Len(stack') > Len(stack) =>
                     /\ FirstViolated(a, i, v) = Ok
                     /\ status = NOT_ENTERED
              /\ (status = NOT_ENTERED /\ FirstViolated(a, i, v) # Ok) =>
                     /\ stack' = stack
                     /\ last'.fn = "buyItem"
                     /\ last'.err = FirstViolated(a, i, v)
              /\ status = ENTERED =>
                     /\ stack' = stack
                     /\ last'.fn = "buyItem"
                     /\ last'.err = Reentrant]_vars

(* with one listing retired, a buyItem on another, active one was refused
   for its payment *)
C23_Witness ==
    /\ stack = <<>>
    /\ last.fn = "buyItem"
    /\ last.err = InsufficientPayment
    /\ listings[last.id].active
    /\ \E j \in 1 .. listingCount : ~listings[j].active

(* the kinds of a list of transfers, in order *)
Kinds(sent) == [k \in DOMAIN sent |-> sent[k].kind]

(* C24  Settlement order: a successful buyItem has received the payment and
   then made its transfers in the order seller, fee recipient (only when the
   fee is positive), buyer (the refund, only when the payment exceeds the
   price); ItemPurchased, carrying the price of the listing, is emitted in
   the step that completes the call and in no other; no buyItem with a zero
   fee ever hands control to the fee recipient or fails with
   FeeTransferFailed. *)
C24_SettlementOrder ==
    [][/\ BuyItemSucceeded =>
             LET f == Top
                 l == listings[f.id]
             IN  /\ Kinds(f.sent) =
                       <<"payment", "seller">>
                       \o (IF f.fee > 0 THEN <<"fee">> ELSE <<>>)
                       \o (IF f.value > l.price THEN <<"refund">> ELSE <<>>)
                 /\ last'.sent = f.sent
                 /\ Len(last'.events) = 1
                 /\ last'.events[1].name = "ItemPurchased"
                 /\ last'.events[1].listingId = f.id
                 /\ last'.events[1].price = l.price
                 /\ history'.purchased[f.id] = history.purchased[f.id] + 1
       /\ history'.purchased # history.purchased => BuyItemSucceeded
       /\ \A k \in DOMAIN stack' :
             stack'[k].pc = "fee" => stack'[k].fee > 0
       /\ (BuyItemFailed /\ last'.err = FeeTransferFailed) => Top.fee > 0
      ]_vars

(* a purchase at fee rate 0 with an excess payment: the seller was paid the
   whole price, the buyer refunded, the fee recipient never called *)
C24_Witness ==
    /\ LastBuyOk
    /\ platformFee = 0
    /\ Kinds(last.sent) = <<"payment", "seller", "refund">>
    /\ last.events[1].price = 500
    /\ SumKind(last.sent, "payment") = 600

(* C25  Guard release: the guard is set exactly while a buyItem is making
   its transfers; whenever no buyItem is executing, whether the last one
   completed, failed at a check, failed at a transfer or rejected a nested
   call, the guard is clear, the last result is not Reentrant and no
   buyItem, whoever calls it on whatever listing, would be rejected as
   Reentrant. *)
C25_GuardRelease ==
    /\ (stack = <<>>) <=> (status = NOT_ENTERED)
    /\ stack = <<>> =>
          /\ last.err # Reentrant
          /\ \A a \in Actors, i \in Ids, v \in Payments :
                BuyItemRevertReason(status, listingCount, platformFee,
                                    listings[i], a, i, v) # Reentrant

(* a buyItem failed at its transfer to the seller: the guard is clear and
   the listing is for sale again *)
C25_Witness ==
    /\ stack = <<>>
    /\ status = NOT_ENTERED
    /\ last.fn = "buyItem"
    /\ last.err = SellerTransferFailed
    /\ listings[last.id].active

(* C26  Guard is per ledger, not per listing: while a buyItem is making a
   transfer, a buyItem made from the callback on a different listing that is
   active fails with Reentrant, whoever calls it with whatever payment, and
   changes nothing: the other listing stays active. *)
C26_GuardPerLedger ==
    [][\A i \in 1 .. listingCount :
          (stack # <<>> /\ ~FrameOn(i) /\ listings[i].active) =>
              \A a \in Actors, v \in Payments :
                  BuyItemCall(a, i, v) =>
                      /\ last'.fn = "buyItem"
                      /\ last'.id = i
                      /\ last'.err = Reentrant
                      /\ stack' = stack
                      /\ listings'[i].active
                      /\ Storage' = Storage]_vars

(* during a buyItem, a buyItem on another, active listing was rejected as
   Reentrant although a buyer other than its seller could pay its price *)
C26_Witness ==
    /\ stack # <<>>
    /\ last.fn = "buyItem"
    /\ last.err = Reentrant
    /\ last.id \in 1 .. listingCount
    /\ last.id # Top.id
    /\ listings[last.id].active
    /\ \E a \in Actors :
          /\ a # listings[last.id].seller
          /\ balance[a] >= listings[last.id].price

(* C27  No custody between calls: whenever no call is in progress the
   balance of the contract is what it was initially, zero; a successful
   buyItem has sent out seller amount + fee + refund equal to the payment it
   received; balances change only in the steps of buyItem, no other entry
   point moving any value. *)
C27_NoCustody ==
    [][/\ stack' = <<>> => balance'[Market] = 0
       /\ BuyItemSucceeded =>
             /\ SumKind(Top.sent, "payment") = Top.value
             /\ SumKind(Top.sent, "seller") + SumKind(Top.sent, "fee")
                  + SumKind(Top.sent, "refund") = Top.value
       /\ balance' # balance => BuyItemStep]_vars

(* after a purchase paid 600 for a price of 500 at the default rate, the
   contract holds nothing *)
C27_Witness ==
    /\ stack = <<>>
    /\ LastBuyOk
    /\ balance[Market] = 0
    /\ SumKind(last.sent, "payment") = 600
    /\ SumKind(last.sent, "seller") = 488
    /\ SumKind(last.sent, "fee") = 12
    /\ SumKind(last.sent, "refund") = 100

(* C28  Fee schedule is read at purchase time: a successful buyItem has paid
   the seller price - floor(price * rate / 10000) and the fee recipient
   floor(price * rate / 10000), rate being platformFee when buyItem was
   called, whatever it was when the listing was created; the fee transfer
   goes to the feeRecipient in force when that transfer is made. *)
C28_ScheduleAtPurchase ==
    [][/\ BuyItemSucceeded =>
             LET f == Top
                 pre == f.snap
                 price == pre.listings[f.id].price
                 fee == (price * pre.platformFee) \div 10000
             IN  /\ SumKind(f.sent, "seller") = price - fee
                 /\ SumKind(f.sent, "fee") = fee
       /\ (stack # <<>> /\ Len(stack') = Len(stack)
             /\ stack'[Len(stack')].pc = "fee" /\ Top.pc # "fee") =>
             LET g == stack'[Len(stack')]
             IN  /\ g.to = feeRecipient
                 /\ g.sent[Len(g.sent)] =
                       [kind |-> "fee", to |-> feeRecipient, amount |-> g.fee]
                 /\ balance'[feeRecipient] = balance[feeRecipient] + g.fee
      ]_vars

(* after the administrator raised the rate to 1000 and made alice the
   recipient, a purchase at price 500 paid 450 to the seller and 50 to
   alice as the fee *)
C28_Witness ==
    /\ LastBuyOk
    /\ platformFee = 1000
    /\ feeRecipient = Alice
    /\ SumKind(last.sent, "seller") = 450
    /\ FeePaidTo(last.sent, Alice)
    /\ SumKind(last.sent, "fee") = 50

(* C29  Deactivation cannot be blocked: in every reachable state, a buyItem
   in progress or not, deactivateListing passes its checks for the seller
   and for the administrator on every active listing; such a call succeeds,
   leaves the listing inactive and moves no value, and the guard does not
   apply to it; a buyItem that fails because a recipient rejects its
   transfer leaves its listing active, so that it can still be
   deactivated. *)
C29_DeactivationNotBlocked ==
    [][/\ \A id \in 1 .. listingCount' :
             listings'[id].active =>
                 \A a \in {listings'[id].seller, owner'} :
                     DeactivateRevertReason(listingCount', listings'[id], a,
                                            id, owner') = Ok
       /\ \A id \in 1 .. listingCount :
             listings[id].active =>
                 \A a \in {listings[id].seller, owner} :
                     DeactivateCall(a, id) =>
                         /\ last'.err = Ok
                         /\ ~listings'[id].active
                         /\ balance' = balance
                         /\ status' = status
       /\ (BuyItemFailed /\ Len(stack') < Len(stack)) =>
             /\ last'.err \in {SellerTransferFailed, FeeTransferFailed,
                                RefundFailed}
             /\ listings'[Top.id].active]_vars

(* while a buyItem on one listing was making a transfer, with the guard set,
   a deactivateListing on another listing succeeded *)
C29_Witness ==
    /\ stack # <<>>
    /\ status = ENTERED
    /\ last.fn = "deactivateListing"
    /\ last.err = Ok
    /\ last.id # Top.id
    /\ ~listings[last.id].active
    /\ history.deactivated[last.id] = 1

(* C30  Fee bounds: for a listing at price > 0 and a rate in 0 .. 1000 whose
   product fits the word, every buyItem that reaches its transfers has
   0 <= fee <= floor(price / 10) and sellerAmount = price - fee >= 1, and
   the seller of a purchased listing has received at least 1; when the
   product exceeds the word, a buyItem that passes its four checks fails at
   the multiplication: no transfer is ever started and the listing is never
   purchased. *)
C30_FeeBounds ==
    LET price == listings[1].price
        fits == price * platformFee <= UintMax
    IN  /\ price > 0
        /\ platformFee \in 0 .. 1000
        /\ fits =>
              /\ last.err # ArithmeticPanic
              /\ \A k \in DOMAIN stack :
                    /\ stack[k].fee >= 0
                    /\ stack[k].fee <= price \div 10
                    /\ stack[k].sellerAmount = price - stack[k].fee
                    /\ stack[k].sellerAmount >= 1
              /\ LastBuyOk =>
                    /\ SumKind(last.sent, "seller") >= 1
                    /\ SumKind(last.sent, "seller")
                         + SumKind(last.sent, "fee") = price
                    /\ SumKind(last.sent, "fee") <= price \div 10
        /\ ~fits =>
              /\ stack = <<>>
              /\ listings[1].active
              /\ history.purchased[1] = 0
              /\ last.fn = "buyItem" =>
                    last.err \in {InsufficientPayment, ArithmeticPanic}

(* a listing at price 1 purchased at the cap rate: the fee rounds down to 0
   and the seller receives 1 *)
C30_Witness ==
    /\ LastBuyOk
    /\ listings[1].price = 1
    /\ platformFee = 1000
    /\ SumKind(last.sent, "seller") = 1
    /\ SumKind(last.sent, "fee") = 0

(* a listing at price 1001 at the cap rate, whose fee product exceeds the
   word: a fully paid buyItem failed at the multiplication *)
C30_OverflowAborts ==
    /\ listings[1].price = 1001
    /\ platformFee = 1000
    /\ last.fn = "buyItem"
    /\ last.err = ArithmeticPanic
    /\ listings[1].active

====
